---- MODULE Spec2Model ----
(***************************************************************************)
(* Model of the chunked-aggregation examples and of the measurement        *)
(* decorators of the repository:                                           *)
(*   csv_examples.py      the five CSV aggregations over one text file     *)
(*   utils.py             log_memory_usage / log_execution_time            *)
(*   chunking_example.py, np_examples.py   the index-based chunk loops     *)
(* Text is modelled as sequences of one-character strings, a file as the   *)
(* sequence of its lines (each with its terminator), so that writing and   *)
(* parsing a number are two different computations.                        *)
(***************************************************************************)
EXTENDS Integers, Sequences, FiniteSets, TLC

(* ---- bounds ---- *)
MaxRows == 10
MaxProcs == 4
MaxDamagedRows == 2

(* ======================================================================= *)
(* Text: str(), int(), str.split, str.join                                 *)
(* ======================================================================= *)
DigitChars == <<"0", "1", "2", "3", "4", "5", "6", "7", "8", "9">>

Whitespace == {" ", "CR", "LF", "TAB"}

IsDigit(c) == \E d \in 1..10 : DigitChars[d] = c

DigitVal(c) == (CHOOSE d \in 1..10 : DigitChars[d] = c) - 1

RECURSIVE str(_)
str(n) ==
  IF n < 0 THEN <<"-">> \o str(-n)
  ELSE IF n < 10 THEN <<DigitChars[n + 1]>>
  ELSE str(n \div 10) \o <<DigitChars[(n % 10) + 1]>>

RECURSIVE lstrip(_)
lstrip(s) ==
  IF s # <<>> /\ Head(s) \in Whitespace THEN lstrip(Tail(s)) ELSE s

RECURSIVE rstrip(_)
rstrip(s) ==
  IF s # <<>> /\ s[Len(s)] \in Whitespace
  THEN rstrip(SubSeq(s, 1, Len(s) - 1)) ELSE s

strip(s) == rstrip(lstrip(s))

RECURSIVE DigitsValue(_)
DigitsValue(s) ==
  IF s = <<>> THEN 0
  ELSE 10 * DigitsValue(SubSeq(s, 1, Len(s) - 1)) + DigitVal(s[Len(s)])

ValueError(text) == [type |-> "ValueError", args |-> <<text>>]

NoExc == [type |-> "None", args |-> <<>>]

(* int() that does not tolerate surrounding whitespace *)
int_strict(s) ==
  LET signed == s # <<>> /\ Head(s) \in {"-", "+"}
      body == IF signed THEN Tail(s) ELSE s
      valid == body # <<>> /\ \A k \in 1..Len(body) : IsDigit(body[k])
  IN IF valid
     THEN [ok |-> TRUE,
           val |-> IF signed /\ Head(s) = "-" THEN 0 - DigitsValue(body)
                   ELSE DigitsValue(body),
           exc |-> NoExc]
     ELSE [ok |-> FALSE, val |-> 0, exc |-> ValueError(s)]

(* int(text): surrounding whitespace is ignored, one optional sign, then   *)
(* at least one digit; anything else raises ValueError.                    *)
int(s) ==
  LET t == strip(s)
      signed == t # <<>> /\ Head(t) \in {"-", "+"}
      body == IF signed THEN Tail(t) ELSE t
      valid == body # <<>> /\ \A k \in 1..Len(body) : IsDigit(body[k])
  IN IF valid
     THEN [ok |-> TRUE,
           val |-> IF signed /\ Head(t) = "-" THEN 0 - DigitsValue(body)
                   ELSE DigitsValue(body),
           exc |-> NoExc]
     ELSE [ok |-> FALSE, val |-> 0, exc |-> ValueError(s)]

RECURSIVE split(_, _)
split(s, sep) ==
  IF \A k \in 1..Len(s) : s[k] # sep THEN <<s>>
  ELSE LET k == CHOOSE j \in 1..Len(s) :
                  s[j] = sep /\ \A m \in 1..(j - 1) : s[m] # sep
       IN <<SubSeq(s, 1, k - 1)>> \o split(SubSeq(s, k + 1, Len(s)), sep)

RECURSIVE join(_, _)
join(fields, sep) ==
  IF fields = <<>> THEN <<>>
  ELSE IF Len(fields) = 1 THEN fields[1]
  ELSE fields[1] \o <<sep>> \o join(Tail(fields), sep)

RECURSIVE SumSeq(_)
SumSeq(s) == IF s = <<>> THEN 0 ELSE Head(s) + SumSeq(Tail(s))

(* ======================================================================= *)
(* csv.writer / csv.DictReader                                             *)
(* ======================================================================= *)
LineTerminator == <<"CR", "LF">>

writerow(fields) == join(fields, ",") \o LineTerminator

HeaderFields == <<<<"i", "d">>, <<"v", "a", "l", "u", "e">>>>

generate_large_csv(n) ==
  <<writerow(HeaderFields)>> \o
  [i \in 1..n |-> writerow(<<str(i - 1), str((i - 1) * 2)>>)]

(* the reader drops the line terminator and splits the rest on commas;     *)
(* a line holding nothing but its terminator parses to the empty row       *)
reader_row(line) ==
  LET body == SelectSeq(line, LAMBDA c : c \notin {"CR", "LF"})
  IN IF body = <<>> THEN <<>> ELSE split(body, ",")

RECURSIVE NonEmptyRows(_)
NonEmptyRows(lines) ==
  IF lines = <<>> THEN <<>>
  ELSE IF reader_row(Head(lines)) = <<>> THEN NonEmptyRows(Tail(lines))
  ELSE <<reader_row(Head(lines))>> \o NonEmptyRows(Tail(lines))

(* csv.DictReader: the first non-empty row names the fields, every later   *)
(* non-empty row is one record                                             *)
DictReader(f) ==
  LET rows == NonEmptyRows(f)
  IN IF rows = <<>> THEN [fieldnames |-> <<>>, rows |-> <<>>]
     ELSE [fieldnames |-> Head(rows), rows |-> Tail(rows)]

HasField(fieldnames, name) == \E k \in 1..Len(fieldnames) : fieldnames[k] = name

FieldIndex(fieldnames, name) ==
  CHOOSE k \in 1..Len(fieldnames) :
    fieldnames[k] = name /\ \A m \in 1..(k - 1) : fieldnames[m] # name

ValueName == <<"v", "a", "l", "u", "e">>

(* int(row['value']) for one record of the reader *)
RowValue(fieldnames, row) ==
  IF ~HasField(fieldnames, ValueName)
  THEN [ok |-> FALSE, val |-> 0, exc |-> [type |-> "KeyError", args |-> <<ValueName>>]]
  ELSE IF FieldIndex(fieldnames, ValueName) > Len(row)
  THEN [ok |-> FALSE, val |-> 0, exc |-> [type |-> "TypeError", args |-> <<>>]]
  ELSE int(row[FieldIndex(fieldnames, ValueName)])

(* ======================================================================= *)
(* The files the CSV functions are run on                                  *)
(* ======================================================================= *)
GeneratedFiles == {generate_large_csv(n) : n \in 0..MaxRows}

(* a file whose value column is 1, 2, 3, 4, 5 *)
ScenarioFile ==
  <<writerow(HeaderFields)>> \o [i \in 1..5 |-> writerow(<<str(i - 1), str(i)>>)]

(* a generated file in which the value of data row k is not a number *)
Damage(f, k) == [f EXCEPT ![k + 1] = writerow(<<str(k - 1), <<"x">>>>)]

DamagedFiles ==
  UNION {{Damage(generate_large_csv(n), k) : k \in 1..n} : n \in 1..MaxDamagedRows}

(* a generated file in which data row k has no second field *)
Truncate(f, k) == [f EXCEPT ![k + 1] = writerow(<<str(k - 1)>>)]

TruncatedFiles ==
  UNION {{Truncate(generate_large_csv(n), k) : k \in 1..n} : n \in 1..MaxDamagedRows}

Files == GeneratedFiles \cup {ScenarioFile} \cup DamagedFiles \cup TruncatedFiles

ChunkSizes == (0 - 1)..(MaxRows + 1)

ProcessCounts == 1..MaxProcs

Methods == {"process_csv_non_optimised", "process_csv_in_chunks",
            "process_csv_streaming", "process_csv_mmap",
            "process_csv_distributed"}

(* ======================================================================= *)
(* State                                                                   *)
(* ======================================================================= *)
VARIABLES
  tracing,        \* tracemalloc is tracing (process-wide)
  \* ---- csv_examples.py ----
  file,           \* the lines of large_data.csv
  fn,             \* the CSV function being executed, or "idle"
  pc,             \* its position
  chunk_size,     \* parameter of process_csv_in_chunks / local of process_csv_distributed
  num_processes,  \* parameter of process_csv_distributed
  pos,            \* index of the next record (line, for mmap) the reader yields
  total,          \* local total
  chunk,          \* local chunk buffer of process_csv_in_chunks
  all_data,       \* local all_data of process_csv_non_optimised
  windows,        \* history: the chunks folded into total so far, in fold order
  num_rows,       \* local num_rows of process_csv_distributed
  chunks,         \* local chunks: the (start, end) pairs
  results,        \* the pool's result list, by position of the task
  arrived,        \* history: tasks in the order their workers completed
  failure,        \* the first exception a worker delivered
  stdout,         \* per function, the totals it has printed
  exc,            \* exception the last call raised to its caller
  \* ---- utils.py: one call of a decorated function ----
  h_chain,        \* the decorators around f, outermost first
  h_pc,           \* "idle", "enter" (going down the wrappers), "exit" (coming back)
  h_depth,        \* number of wrapper frames on the stack
  h_args,         \* the arguments the caller passed
  h_passed,       \* the arguments the innermost frame passes on
  h_invoked,      \* history: the arguments of every invocation of f
  h_fout,         \* history: how f itself ended (returned value or raised exception)
  h_result,       \* the result travelling back up the wrappers
  h_outcome,      \* what the caller received
  h_stack,        \* the calls suspended in f while a decorated call made by f runs
  h_nested,       \* how the last decorated call made by the running f ended
  h_calls,        \* history: number of decorated calls made so far
  h_starts,       \* history: number of tracemalloc.start() calls executed
  h_stops,        \* history: number of tracemalloc.stop() calls executed
  h_clean,        \* history: no call so far raised or was made from inside f
  \* ---- chunking_example.py / np_examples.py: the index-based chunk loops ----
  a_fn,           \* the array function being executed, or "idle"
  a_pc,           \* its position
  a_shape,        \* SHAPE / shape: <<rows, columns>>
  a_chunk_size,   \* CHUNK_SIZE / chunk_size
  a_data,         \* the array stored in the .npy file (process_chunked)
  a_start,        \* loop variable start_idx / i
  a_result,       \* running_sum (one entry) / result (one entry per column)
  a_count,        \* count: number of elements folded
  a_ranges,       \* history: the row ranges <<start, end>> processed, in order
  a_out,          \* how the call ended: the mean it produced or the exception
  \* ---- chunking_pandas_example.py / df_examples*.py: data frames ----
  p_file,         \* the lines of the CSV file written by DataFrame.to_csv
  p_fn,           \* the data-frame function being executed, or "idle"
  p_pc,           \* its position
  p_chunk_size,   \* chunk_size / chunksize
  p_reader,       \* the records the open pd.read_csv reader has not handed out yet
  value_sum,      \* dict: per category, sum of the values seen
  value_sum_sq,   \* dict: per category, sum of the squared values seen
  counts,         \* dict: per category, number of rows seen
  p_keys,         \* insertion order of the keys of the three dicts
  p_chunked,      \* the frame the last process_with_chunking returned
  p_whole,        \* the frame the last process_without_chunking returned
  p_ran,          \* history: the functions that have returned a frame
  db,             \* the rows of table large_data in the SQLite file
  sql_out,        \* history: how each process_sql call ended, the total it printed
  p_exc,          \* exception the last data-frame call raised, or "None"
  \* ---- the main blocks of the scripts, run in one working directory ----
  fs,             \* the names of the files that exist
  s_script,       \* the script being run, or "none"
  s_pc,           \* index of its next file operation
  s_created,      \* history: the files this run has created so far
  s_early,        \* history: the files this run read before creating them
  s_fresh,        \* history: none of the script's data files existed at its start
  s_fn,           \* the try/finally function being executed, or "none"
  s_file,         \* its filename argument
  s_step,         \* "try" or "finally"
  s_bound,        \* its local df / data is bound
  s_pending,      \* the exception in flight when the finally block is entered
  s_load_exc,     \* history: the exception pd.read_csv / np.load raised in the call
  s_exc,          \* the exception the caller of the last call or run received
  \* ---- lazy_loading_example.py: one DatasetHandler, several threads ----
  l_made,         \* the handler has been constructed
  l_data,         \* self._data: None, or the array it refers to
  l_loads,        \* history: number of arrays np.random.rand has produced
  l_accesses,     \* history: number of accesses to the property data started
  l_users,        \* history: the threads that have accessed the handler
  l_none_checks,  \* history: number of checks that found self._data None
  t_pc,           \* per thread: its position in the property data
  t_left,         \* per thread: accesses to data its current call still makes
  t_got,          \* history, per thread: the arrays its accesses returned
  \* ---- utils.run_in_process ----
  r_pc,           \* position of the caller inside run_in_process
  r_args,         \* the arguments given to run_in_process after func
  r_child_args,   \* the arguments func is called with in the child
  r_child,        \* the child process: "none", "running" or "exited"
  r_child_out,    \* how func ended in the child
  r_exitcode,     \* exit code of the child
  r_ret,          \* what the last call of run_in_process gave its caller
  r_calls         \* history: number of calls of run_in_process

loopVars == <<pos, total, chunk, all_data, windows>>

distVars == <<num_rows, chunks, results, arrived, failure>>

csvVars == <<file, fn, pc, chunk_size, num_processes, loopVars, distVars, stdout, exc>>

h_hist == <<h_calls, h_starts, h_stops, h_clean>>

harnessVars == <<h_chain, h_pc, h_depth, h_args, h_passed, h_invoked, h_fout,
                 h_result, h_outcome, h_stack, h_nested, h_hist>>

arrayVars == <<a_fn, a_pc, a_shape, a_chunk_size, a_data, a_start, a_result,
               a_count, a_ranges, a_out>>

dictVars == <<value_sum, value_sum_sq, counts, p_keys>>

pandasVars == <<p_file, p_fn, p_pc, p_chunk_size, p_reader, dictVars, p_chunked,
                p_whole, p_ran, db, sql_out, p_exc>>

runVars == <<s_script, s_pc, s_created, s_early, s_fresh>>

guardVars == <<s_fn, s_file, s_step, s_bound, s_pending, s_load_exc>>

scriptVars == <<fs, runVars, guardVars, s_exc>>

lazyVars == <<l_made, l_data, l_loads, l_accesses, l_users, l_none_checks,
              t_pc, t_left, t_got>>

procVars == <<r_pc, r_args, r_child_args, r_child, r_child_out, r_exitcode, r_ret,
              r_calls>>

notCsv == <<harnessVars, arrayVars, pandasVars, scriptVars, lazyVars, procVars>>

notHarness == <<csvVars, arrayVars, pandasVars, scriptVars, lazyVars, procVars>>

notArray == <<csvVars, harnessVars, pandasVars, scriptVars, lazyVars, procVars>>

notPandas == <<tracing, csvVars, harnessVars, arrayVars, scriptVars, lazyVars,
               procVars>>

notScripts == <<tracing, csvVars, harnessVars, arrayVars, pandasVars, lazyVars,
                procVars>>

notLazy == <<tracing, csvVars, harnessVars, arrayVars, pandasVars, scriptVars,
             procVars>>

notProc == <<tracing, csvVars, harnessVars, arrayVars, pandasVars, scriptVars,
             lazyVars>>

vars == <<tracing, csvVars, harnessVars, arrayVars, pandasVars, scriptVars,
          lazyVars, procVars>>

(* ======================================================================= *)
(* utils.log_memory_usage / log_execution_time around a CSV function       *)
(* ======================================================================= *)
(* wrapper entry: tracemalloc.start(), then the wrapped function is called *)
EnterWrappers(f, first) ==
  /\ fn = "idle"
  /\ UNCHANGED notCsv
  /\ tracing' = TRUE
  /\ fn' = f
  /\ pc' = first
  /\ exc' = NoExc

ResetLocals ==
  /\ chunk_size' = 0
  /\ num_processes' = 0
  /\ pos' = 1
  /\ total' = 0
  /\ chunk' = <<>>
  /\ all_data' = <<>>
  /\ windows' = <<>>
  /\ num_rows' = 0
  /\ chunks' = <<>>
  /\ results' = <<>>
  /\ arrived' = <<>>
  /\ failure' = NoExc

(* the function returned: get_traced_memory(), tracemalloc.stop(), return  *)
TracingAfterReturn(t) == FALSE

(* the function raised: the wrappers have no handler, the statements after *)
(* the call are skipped                                                    *)
TracingAfterRaise(t) == t

ReturnThroughWrappers ==
  /\ fn' = "idle"
  /\ pc' = "idle"
  /\ tracing' = TracingAfterReturn(tracing)
  /\ exc' = NoExc
  /\ ResetLocals

RaiseThroughWrappers(e) ==
  /\ fn' = "idle"
  /\ pc' = "idle"
  /\ tracing' = TracingAfterRaise(tracing)
  /\ exc' = e
  /\ ResetLocals
  /\ UNCHANGED stdout

(* print(f"... Total sum: {total}") followed by the return *)
PrintTotal(f) ==
  /\ fn = f
  /\ pc = "print"
  /\ UNCHANGED notCsv
  /\ stdout' = [stdout EXCEPT ![f] = @ \cup {total}]
  /\ ReturnThroughWrappers
  /\ UNCHANGED file

(* the file after open(filename, 'w'): it is truncated *)
OpenTruncating(content) == <<>>

(* the file after open(filename, 'r') (or a PROT_READ mapping) and the     *)
(* reads that follow: its content is what it was                           *)
OpenReadOnly(content) == content

(* ======================================================================= *)
(* process_csv_non_optimised                                               *)
(* ======================================================================= *)
Call_non_optimised ==
  /\ EnterWrappers("process_csv_non_optimised", "load")
  /\ UNCHANGED <<file, chunk_size, num_processes, loopVars, distVars, stdout>>

NonOptLoad ==
  /\ fn = "process_csv_non_optimised"
  /\ UNCHANGED notCsv
  /\ pc = "load"
  /\ all_data' = DictReader(file).rows
  /\ pc' = "loop"
  /\ file' = OpenReadOnly(file)
  /\ UNCHANGED <<tracing, fn, chunk_size, num_processes, pos, total, chunk,
                 windows, distVars, stdout, exc>>

NonOptRow ==
  /\ fn = "process_csv_non_optimised"
  /\ UNCHANGED notCsv
  /\ pc = "loop"
  /\ IF pos > Len(all_data)
     THEN /\ pc' = "print"
          /\ UNCHANGED <<tracing, file, fn, chunk_size, num_processes, loopVars,
                         distVars, stdout, exc>>
     ELSE LET v == RowValue(DictReader(file).fieldnames, all_data[pos])
          IN IF v.ok
             THEN /\ total' = total + v.val
                  /\ pos' = pos + 1
                  /\ UNCHANGED <<tracing, file, fn, pc, chunk_size, num_processes,
                                 chunk, all_data, windows, distVars, stdout, exc>>
             ELSE /\ RaiseThroughWrappers(v.exc)
                  /\ UNCHANGED file

NonOptPrint == PrintTotal("process_csv_non_optimised")

(* ======================================================================= *)
(* process_csv_in_chunks                                                   *)
(* ======================================================================= *)
Call_in_chunks(cs) ==
  /\ EnterWrappers("process_csv_in_chunks", "loop")
  /\ chunk_size' = cs
  /\ file' = OpenReadOnly(file)
  /\ UNCHANGED <<num_processes, loopVars, distVars, stdout>>

(* for row in reader: chunk.append(int(row['value'])) *)
ChunksAppend ==
  /\ fn = "process_csv_in_chunks"
  /\ UNCHANGED notCsv
  /\ pc = "loop"
  /\ pos <= Len(DictReader(file).rows)
  /\ LET rd == DictReader(file)
         v == RowValue(rd.fieldnames, rd.rows[pos])
     IN IF v.ok
        THEN /\ chunk' = Append(chunk, v.val)
             /\ pos' = pos + 1
             /\ pc' = "check"
             /\ UNCHANGED <<tracing, file, fn, chunk_size, num_processes, total,
                            all_data, windows, distVars, stdout, exc>>
        ELSE /\ RaiseThroughWrappers(v.exc)
             /\ UNCHANGED file

(* the buffer is folded one record late *)
ChunkIsFull_After(c, cs) == Len(c) = cs + 1

ChunkIsFull(c, cs) == Len(c) = cs

(* a fold that keeps the buffer *)
BufferAfterFold_Kept(c) == c

(* chunk = [] after the fold of a full buffer *)
BufferAfterFold(c) == <<>>

(* if len(chunk) == chunk_size: total += sum(chunk); chunk = [] *)
ChunksCheck ==
  /\ fn = "process_csv_in_chunks"
  /\ UNCHANGED notCsv
  /\ pc = "check"
  /\ pc' = "loop"
  /\ IF ChunkIsFull(chunk, chunk_size)
     THEN /\ total' = total + SumSeq(chunk)
          /\ windows' = Append(windows, chunk)
          /\ chunk' = BufferAfterFold(chunk)
     ELSE UNCHANGED <<total, windows, chunk>>
  /\ UNCHANGED <<tracing, file, fn, chunk_size, num_processes, pos, all_data,
                 distVars, stdout, exc>>

(* the reader is exhausted: if chunk: total += sum(chunk) *)
ChunksTail ==
  /\ fn = "process_csv_in_chunks"
  /\ UNCHANGED notCsv
  /\ pc = "loop"
  /\ pos > Len(DictReader(file).rows)
  /\ pc' = "print"
  /\ IF chunk # <<>>
     THEN /\ total' = total + SumSeq(chunk)
          /\ windows' = Append(windows, chunk)
     ELSE UNCHANGED <<total, windows>>
  /\ UNCHANGED <<tracing, file, fn, chunk_size, num_processes, pos, chunk, all_data,
                 distVars, stdout, exc>>

ChunksPrint == PrintTotal("process_csv_in_chunks")

(* ======================================================================= *)
(* process_csv_streaming                                                   *)
(* ======================================================================= *)
Call_streaming ==
  /\ EnterWrappers("process_csv_streaming", "loop")
  /\ file' = OpenReadOnly(file)
  /\ UNCHANGED <<chunk_size, num_processes, loopVars, distVars, stdout>>

StreamRow ==
  /\ fn = "process_csv_streaming"
  /\ UNCHANGED notCsv
  /\ pc = "loop"
  /\ LET rd == DictReader(file)
     IN IF pos > Len(rd.rows)
        THEN /\ pc' = "print"
             /\ UNCHANGED <<tracing, file, fn, chunk_size, num_processes, loopVars,
                            distVars, stdout, exc>>
        ELSE LET v == RowValue(rd.fieldnames, rd.rows[pos])
             IN IF v.ok
                THEN /\ total' = total + v.val
                     /\ pos' = pos + 1
                     /\ UNCHANGED <<tracing, file, fn, pc, chunk_size, num_processes,
                                    chunk, all_data, windows, distVars, stdout, exc>>
                ELSE /\ RaiseThroughWrappers(v.exc)
                     /\ UNCHANGED file

StreamPrint == PrintTotal("process_csv_streaming")

(* ======================================================================= *)
(* process_csv_mmap                                                        *)
(* ======================================================================= *)
Call_mmap ==
  /\ EnterWrappers("process_csv_mmap", "loop")
  /\ file' = OpenReadOnly(file)
  /\ UNCHANGED <<chunk_size, num_processes, loopVars, distVars, stdout>>

(* int(line.decode().split(',')[1]) on a raw line, terminator included *)
MmapLineValue(line) ==
  LET fields == split(line, ",")
  IN IF Len(fields) < 2
     THEN [ok |-> FALSE, val |-> 0, exc |-> [type |-> "IndexError", args |-> <<>>]]
     ELSE int(fields[2])

MmapLine ==
  /\ fn = "process_csv_mmap"
  /\ UNCHANGED notCsv
  /\ pc = "loop"
  /\ IF pos > Len(file)
     THEN /\ pc' = "print"
          /\ UNCHANGED <<tracing, file, fn, chunk_size, num_processes, loopVars,
                         distVars, stdout, exc>>
     ELSE LET v == MmapLineValue(file[pos])
          IN IF v.ok \/ v.exc.type = "ValueError"
             THEN /\ total' = IF v.ok THEN total + v.val ELSE total
                  /\ pos' = pos + 1
                  /\ UNCHANGED <<tracing, file, fn, pc, chunk_size, num_processes,
                                 chunk, all_data, windows, distVars, stdout, exc>>
             ELSE /\ RaiseThroughWrappers(v.exc)
                  /\ UNCHANGED file

MmapPrint == PrintTotal("process_csv_mmap")

(* ======================================================================= *)
(* process_chunk / process_csv_distributed                                 *)
(* ======================================================================= *)
(* the end of the range is taken as inclusive *)
InRange_Inclusive(i, start, end) == start <= i /\ i <= end

InRange(i, start, end) == start <= i /\ i < end

(* the loop of process_chunk from record index i (0-based) on *)
RECURSIVE process_chunk_from(_, _, _, _, _)
process_chunk_from(rd, i, start, end, tot) ==
  IF i >= Len(rd.rows) THEN [ok |-> TRUE, val |-> tot, exc |-> NoExc]
  ELSE IF InRange(i, start, end)
  THEN LET v == RowValue(rd.fieldnames, rd.rows[i + 1])
       IN IF v.ok THEN process_chunk_from(rd, i + 1, start, end, tot + v.val)
          ELSE v
  ELSE process_chunk_from(rd, i + 1, start, end, tot)

process_chunk(f, start, end) == process_chunk_from(DictReader(f), 0, start, end, 0)

(* chunks = [(i * chunk_size, (i + 1) * chunk_size) for i in range(n)] *)
(* chunks[-1] = (chunks[-1][0], num_rows)                              *)
(* the last chunk is not extended over the remaining rows *)
LastChunkEnd_NoRemainder(rows, cs, n) == n * cs

LastChunkEnd(rows, cs, n) == rows

MakeChunks(rows, cs, n) ==
  [i \in 1..n |-> IF i = n THEN <<(i - 1) * cs, LastChunkEnd(rows, cs, n)>>
                  ELSE <<(i - 1) * cs, i * cs>>]

Call_distributed(np) ==
  /\ EnterWrappers("process_csv_distributed", "partition")
  /\ num_processes' = np
  /\ UNCHANGED <<file, chunk_size, loopVars, distVars, stdout>>

(* num_rows = sum(1 for _ in csvfile) - 1, chunk_size, chunks *)
DistPartition ==
  /\ fn = "process_csv_distributed"
  /\ UNCHANGED notCsv
  /\ pc = "partition"
  /\ num_rows' = Len(file) - 1
  /\ chunk_size' = num_rows' \div num_processes
  /\ chunks' = MakeChunks(num_rows', chunk_size', num_processes)
  /\ results' = [i \in 1..num_processes |-> 0]
  /\ pc' = "pool"
  /\ file' = OpenReadOnly(file)
  /\ UNCHANGED <<tracing, fn, num_processes, loopVars, arrived, failure,
                 stdout, exc>>

Finished == {arrived[k] : k \in 1..Len(arrived)}

(* every value is stored at the first position *)
StoreResult_FirstSlot(res, i, r) == [res EXCEPT ![1] = r]

(* the pool stores the value a task returned at the task's position *)
StoreResult(res, i, r) == [res EXCEPT ![i] = r]

(* one worker runs process_chunk(filename, start, end) for task i and      *)
(* delivers its return value or its exception                              *)
DistWorker(i) ==
  /\ fn = "process_csv_distributed"
  /\ UNCHANGED notCsv
  /\ pc = "pool"
  /\ i \in (1..num_processes) \ Finished
  /\ arrived' = Append(arrived, i)
  /\ LET r == process_chunk(file, chunks[i][1], chunks[i][2])
     IN IF r.ok
        THEN /\ results' = StoreResult(results, i, r.val)
             /\ UNCHANGED failure
        ELSE /\ failure' = IF failure = NoExc THEN r.exc ELSE failure
             /\ UNCHANGED results
  /\ file' = OpenReadOnly(file)
  /\ UNCHANGED <<tracing, fn, pc, chunk_size, num_processes, loopVars,
                 num_rows, chunks, stdout, exc>>

(* some task has finished *)
SomeFinished(done, n) == done # {}

(* every task handed to the pool has finished *)
AllFinished(done, n) == done = 1..n

(* starmap returns once every task is finished, or re-raises the first     *)
(* exception a worker delivered; then total = sum(results)                 *)
DistJoin ==
  /\ fn = "process_csv_distributed"
  /\ UNCHANGED notCsv
  /\ pc = "pool"
  /\ AllFinished(Finished, num_processes)
  /\ IF failure # NoExc
     THEN /\ RaiseThroughWrappers(failure)
          /\ UNCHANGED file
     ELSE /\ total' = SumSeq(results)
          /\ pc' = "print"
          /\ UNCHANGED <<tracing, file, fn, chunk_size, num_processes, pos, chunk,
                         all_data, windows, distVars, stdout, exc>>

DistPrint == PrintTotal("process_csv_distributed")

(* ======================================================================= *)
(* utils.py: log_memory_usage and log_execution_time around any function f *)
(* ======================================================================= *)
MaxArg == 1
MaxValue == 1

Arguments == {<<a>> : a \in 0..MaxArg}

Exceptions == {"ValueError", "MemoryError"}

Returned(v) == [kind |-> "return", value |-> v, exc |-> ""]

Raised(e) == [kind |-> "raise", value |-> 0, exc |-> e]

NoOutcome == [kind |-> "none", value |-> 0, exc |-> ""]

(* f is any function: it returns some value or raises some exception *)
FOutcomes == {Returned(v) : v \in 0..MaxValue} \cup {Raised(e) : e \in Exceptions}

Chains == {<<"log_memory_usage", "log_execution_time">>,
           <<"log_memory_usage">>,
           <<"log_execution_time">>}

(* bounds: decorated calls in one run, and calls suspended inside f *)
MaxCalls == 3
MaxNest == 1

(* f has made no decorated call *)
NoNested == [chain |-> <<>>, kind |-> "none"]

HarnessIdle ==
  /\ h_chain = <<>>
  /\ h_pc = "idle"
  /\ h_depth = 0
  /\ h_args = <<>>
  /\ h_passed = <<>>
  /\ h_invoked = <<>>
  /\ h_fout = NoOutcome
  /\ h_result = NoOutcome
  /\ h_outcome = NoOutcome
  /\ h_stack = <<>>
  /\ h_nested = NoNested
  /\ h_calls = 0
  /\ h_starts = 0
  /\ h_stops = 0
  /\ h_clean = TRUE

(* the caller calls the decorated function *)
HCall(chain, args) ==
  /\ h_pc = "idle"
  /\ h_calls < MaxCalls
  /\ h_calls' = h_calls + 1
  /\ h_chain' = chain
  /\ h_pc' = "enter"
  /\ h_depth' = 0
  /\ h_args' = args
  /\ h_passed' = args
  /\ h_invoked' = <<>>
  /\ h_fout' = NoOutcome
  /\ h_result' = NoOutcome
  /\ h_outcome' = NoOutcome
  /\ h_nested' = NoNested
  /\ UNCHANGED <<tracing, h_stack, h_starts, h_stops, h_clean, notHarness>>

(* the wrapped function is called without the arguments *)
WrapperPasses_Nothing(args) == <<>>

(* the call of the wrapped function: a wrapper passes on what it was given *)
WrapperPasses(args) == args

(* a wrapper that starts no tracking *)
TracingOnEnter_NoStart(layer, t) == t

(* tracemalloc state once the frame of wrapper `layer` is entered:         *)
(* log_memory_usage calls tracemalloc.start()                              *)
TracingOnEnter(layer, t) == IF layer = "log_memory_usage" THEN TRUE ELSE t

(* wrapper entry, up to the call of the wrapped function:                  *)
(* log_memory_usage: tracemalloc.start(); log_execution_time: time.time()  *)
WrapperEnter ==
  /\ h_pc = "enter"
  /\ h_depth < Len(h_chain)
  /\ h_depth' = h_depth + 1
  /\ tracing' = TracingOnEnter(h_chain[h_depth + 1], tracing)
  /\ h_starts' = IF h_chain[h_depth + 1] = "log_memory_usage"
                 THEN h_starts + 1 ELSE h_starts
  /\ h_passed' = WrapperPasses(h_passed)
  /\ UNCHANGED <<h_chain, h_pc, h_args, h_invoked, h_fout, h_result, h_outcome,
                 h_stack, h_nested, h_calls, h_stops, h_clean, notHarness>>

(* the innermost wrapper calls f itself *)
InvokeF ==
  /\ h_pc = "enter"
  /\ h_depth = Len(h_chain)
  /\ h_invoked' = Append(h_invoked, h_passed)
  /\ h_pc' = "in_f"
  /\ UNCHANGED <<tracing, h_chain, h_depth, h_args, h_passed, h_fout, h_result,
                 h_outcome, h_stack, h_nested, h_hist, notHarness>>

(* the body of f calls a decorated function: the running call is suspended *)
FCalls(chain, args) ==
  /\ h_pc = "in_f"
  /\ Len(h_stack) < MaxNest
  /\ h_calls < MaxCalls
  /\ h_calls' = h_calls + 1
  /\ h_clean' = FALSE
  /\ h_stack' = Append(h_stack, [chain |-> h_chain, depth |-> h_depth,
                                 args |-> h_args, passed |-> h_passed,
                                 invoked |-> h_invoked])
  /\ h_chain' = chain
  /\ h_pc' = "enter"
  /\ h_depth' = 0
  /\ h_args' = args
  /\ h_passed' = args
  /\ h_invoked' = <<>>
  /\ h_nested' = NoNested
  /\ UNCHANGED <<tracing, h_fout, h_result, h_outcome, h_starts, h_stops,
                 notHarness>>

(* the decorated call made by f comes back to f, with a value or an        *)
(* exception                                                               *)
FResumes ==
  /\ h_pc = "exit"
  /\ h_depth = 0
  /\ h_stack # <<>>
  /\ h_nested' = [chain |-> h_chain, kind |-> h_result.kind]
  /\ h_chain' = h_stack[Len(h_stack)].chain
  /\ h_depth' = h_stack[Len(h_stack)].depth
  /\ h_args' = h_stack[Len(h_stack)].args
  /\ h_passed' = h_stack[Len(h_stack)].passed
  /\ h_invoked' = h_stack[Len(h_stack)].invoked
  /\ h_stack' = SubSeq(h_stack, 1, Len(h_stack) - 1)
  /\ h_pc' = "in_f"
  /\ UNCHANGED <<tracing, h_fout, h_result, h_outcome, h_hist, notHarness>>

(* f ends: it returns some value or raises some exception *)
FEnds ==
  /\ h_pc = "in_f"
  /\ \E o \in FOutcomes :
       /\ h_fout' = o
       /\ h_result' = o
       /\ h_clean' = (h_clean /\ o.kind = "return")
  /\ h_pc' = "exit"
  /\ UNCHANGED <<tracing, h_chain, h_depth, h_args, h_passed, h_invoked,
                 h_outcome, h_stack, h_nested, h_calls, h_starts, h_stops,
                 notHarness>>

(* return result *)
WrapperReturns(result) == result

(* a wrapper that never stops the tracking *)
TracingOnExit_NoStop(layer, result, t) == t

(* tracemalloc state when the frame of wrapper `layer` is left with `result` *)
TracingOnExit(layer, result, t) ==
  IF layer = "log_memory_usage" /\ result.kind = "return" THEN FALSE ELSE t

(* the call in a wrapper comes back: on a return the statements after the  *)
(* call run (get_traced_memory / stop / print / return result); on an      *)
(* exception the frame is left at once                                     *)
WrapperExit ==
  /\ h_pc = "exit"
  /\ h_depth > 0
  /\ h_depth' = h_depth - 1
  /\ tracing' = TracingOnExit(h_chain[h_depth], h_result, tracing)
  /\ h_stops' = IF h_chain[h_depth] = "log_memory_usage" /\ h_result.kind = "return"
                THEN h_stops + 1 ELSE h_stops
  /\ h_result' = IF h_result.kind = "return" THEN WrapperReturns(h_result)
                 ELSE h_result
  /\ UNCHANGED <<h_chain, h_pc, h_args, h_passed, h_invoked, h_fout, h_outcome,
                 h_stack, h_nested, h_calls, h_starts, h_clean, notHarness>>

(* the outermost wrapper is left: the caller has the value or the exception *)
HReturn ==
  /\ h_pc = "exit"
  /\ h_depth = 0
  /\ h_stack = <<>>
  /\ h_outcome' = h_result
  /\ h_pc' = "idle"
  /\ UNCHANGED <<tracing, h_chain, h_depth, h_args, h_passed, h_invoked, h_fout,
                 h_result, h_stack, h_nested, h_hist, notHarness>>

(* ======================================================================= *)
(* chunking_example.process_chunked_array and np_examples.process_chunked  *)
(* Array elements are 0 or 1; a mean is kept as numerator and denominator. *)
(* ======================================================================= *)
MaxArrayRows == 3
MaxArrayCols == 2

Shapes == {<<r, c>> : r \in 0..MaxArrayRows, c \in 1..MaxArrayCols}

ArrayChunkSizes == (0 - 1)..(MaxArrayRows + 1)

ArraysOfShape(shape) == [1..shape[1] -> [1..shape[2] -> 0..1]]

NoMean == [kind |-> "none", num |-> 0, den |-> 0, exc |-> ""]

Mean(n, d) == [kind |-> "value", num |-> n, den |-> d, exc |-> ""]

NaN == [kind |-> "nan", num |-> 0, den |-> 0, exc |-> ""]

ArrayRaised(e) == [kind |-> "raise", num |-> 0, den |-> 0, exc |-> e]

ArrayIdle ==
  /\ a_fn = "idle"
  /\ a_pc = "idle"
  /\ a_start = 0
  /\ a_result = <<>>
  /\ a_count = 0
  /\ a_ranges = <<>>
  /\ a_out = NoMean

(* a range that also yields its stop value *)
InPyRange_Inclusive(i, stop, step) == IF step > 0 THEN i <= stop ELSE i > stop

(* range(0, stop, step) still yields the value i *)
InPyRange(i, stop, step) == IF step > 0 THEN i < stop ELSE i > stop

Min(a, b) == IF a < b THEN a ELSE b

ArrayReturn(out) ==
  /\ a_fn' = "idle"
  /\ a_pc' = "idle"
  /\ a_start' = 0
  /\ a_result' = <<>>
  /\ a_count' = 0
  /\ a_ranges' = <<>>
  /\ a_out' = out
  /\ UNCHANGED <<a_shape, a_chunk_size, a_data>>

Call_chunked_array ==
  /\ a_fn = "idle"
  /\ a_fn' = "process_chunked_array"
  /\ a_pc' = "create"
  /\ a_out' = NoMean
  /\ UNCHANGED <<tracing, a_shape, a_chunk_size, a_data, a_start, a_result, a_count,
                 a_ranges, notArray>>

(* temp_array = np.zeros((CHUNK_SIZE, SHAPE[1])); np.save; running_sum = 0; *)
(* count = 0; the range of the for loop is built                            *)
ChunkedArrayCreate ==
  /\ a_fn = "process_chunked_array"
  /\ a_pc = "create"
  /\ IF a_chunk_size <= 0
     THEN ArrayReturn(ArrayRaised("ValueError"))
     ELSE /\ a_pc' = "loop"
          /\ a_result' = <<0>>
          /\ a_count' = 0
          /\ a_start' = 0
          /\ UNCHANGED <<a_fn, a_shape, a_chunk_size, a_data, a_ranges, a_out>>
  /\ UNCHANGED <<tracing, notArray>>

(* one iteration: a chunk of random elements is generated and folded *)
ChunkedArrayLoop ==
  /\ a_fn = "process_chunked_array"
  /\ a_pc = "loop"
  /\ IF InPyRange(a_start, a_shape[1], a_chunk_size)
     THEN LET end_idx == Min(a_start + a_chunk_size, a_shape[1])
              size == (end_idx - a_start) * a_shape[2]
          IN /\ \E chunk_sum \in 0..size : a_result' = <<a_result[1] + chunk_sum>>
             /\ a_count' = a_count + size
             /\ a_ranges' = Append(a_ranges, <<a_start, end_idx>>)
             /\ a_start' = a_start + a_chunk_size
             /\ UNCHANGED a_pc
     ELSE /\ a_pc' = "finish"
          /\ UNCHANGED <<a_result, a_count, a_ranges, a_start>>
  /\ UNCHANGED <<tracing, a_fn, a_shape, a_chunk_size, a_data, a_out, notArray>>

(* result = running_sum / count on two Python ints when no chunk was folded *)
Divide(n, d) == IF d = 0 THEN ArrayRaised("ZeroDivisionError") ELSE Mean(n, d)

ChunkedArrayFinish ==
  /\ a_fn = "process_chunked_array"
  /\ a_pc = "finish"
  /\ ArrayReturn(Divide(a_result[1], a_count))
  /\ UNCHANGED <<tracing, notArray>>

(* process_chunked is decorated: tracemalloc.start(), then                 *)
(* result = np.zeros(shape[1]); the file is mapped; the range is built     *)
Call_chunked ==
  /\ a_fn = "idle"
  /\ tracing' = TRUE
  /\ IF a_chunk_size = 0
     THEN ArrayReturn(ArrayRaised("ValueError"))
     ELSE /\ a_fn' = "process_chunked"
          /\ a_pc' = "loop"
          /\ a_result' = [c \in 1..a_shape[2] |-> 0]
          /\ a_start' = 0
          /\ a_out' = NoMean
          /\ UNCHANGED <<a_shape, a_chunk_size, a_data, a_count, a_ranges>>
  /\ UNCHANGED notArray

(* mmap_array[i:i + chunk_size] *)
Slice(data, i, n) == SubSeq(data, i + 1, Min(i + n, Len(data)))

(* np.sum(chunk, axis=0) *)
RECURSIVE ColumnSums(_, _)
ColumnSums(rows, ncols) ==
  IF rows = <<>> THEN [c \in 1..ncols |-> 0]
  ELSE [c \in 1..ncols |-> Head(rows)[c] + ColumnSums(Tail(rows), ncols)[c]]

ChunkedLoop ==
  /\ a_fn = "process_chunked"
  /\ a_pc = "loop"
  /\ IF InPyRange(a_start, a_shape[1], a_chunk_size)
     THEN LET chunk_rows == Slice(a_data, a_start, a_chunk_size)
              sums == ColumnSums(chunk_rows, a_shape[2])
          IN /\ a_result' = [c \in 1..a_shape[2] |-> a_result[c] + sums[c]]
             /\ a_ranges' = Append(a_ranges, <<a_start, a_start + Len(chunk_rows)>>)
             /\ a_start' = a_start + a_chunk_size
             /\ UNCHANGED a_pc
     ELSE /\ a_pc' = "finish"
          /\ UNCHANGED <<a_result, a_ranges, a_start>>
  /\ UNCHANGED <<tracing, a_fn, a_shape, a_chunk_size, a_data, a_count, a_out,
                 notArray>>

(* result /= shape[0] on a float array: 0.0 / 0 is nan, not an exception;  *)
(* the printed result.mean() is the sum of the entries over rows * columns *)
ArrayDivide(res, shape) ==
  IF shape[1] = 0 THEN NaN ELSE Mean(SumSeq(res), shape[1] * shape[2])

ChunkedFinish ==
  /\ a_fn = "process_chunked"
  /\ a_pc = "finish"
  /\ ArrayReturn(ArrayDivide(a_result, a_shape))
  /\ tracing' = FALSE
  /\ UNCHANGED notArray

(* ======================================================================= *)
(* chunking_pandas_example.py and process_sql of df_examples*.py           *)
(* A frame row is [id, value, category]; values are integers. A mean is    *)
(* kept as numerator and denominator; a standard deviation is kept as its  *)
(* square (the variance), again as numerator and denominator, or as NaN.   *)
(* ======================================================================= *)
MaxPRows == 3
MaxPValue == 1
MaxSqlCalls == 2

Categories == <<<<"A">>, <<"B">>>>

FrameRows == [id : {0}, value : 0..MaxPValue, category : {Categories[k] : k \in 1..Len(Categories)}]

(* the data frames create_sample_data / create_large_csv can build: ids    *)
(* count from 0, values and categories are drawn at random                 *)
Frames ==
  UNION {{[k \in 1..n |-> [id |-> k - 1, value |-> r[k].value, category |-> r[k].category]] :
            r \in [1..n -> FrameRows]} : n \in 0..MaxPRows}

PandasHeader == <<<<"i", "d">>, <<"v", "a", "l", "u", "e">>,
                  <<"c", "a", "t", "e", "g", "o", "r", "y">>>>

(* df.to_csv(filename, index=False): a header line, then one line per row *)
to_csv(frame) ==
  <<join(PandasHeader, ",") \o <<"LF">>>> \o
  [k \in 1..Len(frame) |->
     join(<<str(frame[k].id), str(frame[k].value), frame[k].category>>, ",") \o <<"LF">>]

(* pd.read_csv(filename): the records after the header, columns by name *)
read_csv(f) ==
  LET rd == DictReader(f)
      col(name) == FieldIndex(rd.fieldnames, name)
  IN [k \in 1..Len(rd.rows) |->
        [id |-> int(rd.rows[k][col(<<"i", "d">>)]).val,
         value |-> int(rd.rows[k][col(ValueName)]).val,
         category |-> rd.rows[k][col(<<"c", "a", "t", "e", "g", "o", "r", "y">>)]]]

PandasFiles == {to_csv(frame) : frame \in Frames}

PandasChunkSizes == 1..(MaxPRows + 1)

(* Series.unique(): the distinct categories in order of first appearance *)
RECURSIVE unique(_)
unique(rows) ==
  IF rows = <<>> THEN <<>>
  ELSE LET front == unique(SubSeq(rows, 1, Len(rows) - 1))
           c == rows[Len(rows)].category
       IN IF \E k \in 1..Len(front) : front[k] = c THEN front ELSE Append(front, c)

(* chunk[chunk['category'] == category]['value'] *)
category_data(rows, category) ==
  LET sel == SelectSeq(rows, LAMBDA r : r.category = category)
  IN [k \in 1..Len(sel) |-> sel[k].value]

Squares(values) == [k \in 1..Len(values) |-> values[k] * values[k]]

Ratio(n, d) == [nan |-> FALSE, num |-> n, den |-> d]

NotANumber == [nan |-> TRUE, num |-> 0, den |-> 1]

(* df.groupby('category')['value'].agg(['mean', 'std', 'count']): one row  *)
(* per category, sorted by category; std is the sample standard deviation  *)
(* (divisor n - 1), NaN for a group of one row                             *)
groupby_agg(rows) ==
  LET present == SelectSeq(Categories,
                           LAMBDA c : \E k \in 1..Len(rows) : rows[k].category = c)
      stat(c) ==
        LET v == category_data(rows, c)
            n == Len(v)
            sm == SumSeq(v)
            sq == SumSeq(Squares(v))
        IN [category |-> c,
            mean |-> Ratio(sm, n),
            std |-> IF n = 1 THEN NotANumber
                    ELSE Ratio(n * sq - sm * sm, n * (n - 1)),
            count |-> n]
  IN [k \in 1..Len(present) |-> stat(present[k])]

PandasIdle ==
  /\ p_fn = "idle"
  /\ p_pc = "idle"
  /\ p_chunk_size = 1
  /\ p_reader = <<>>
  /\ value_sum = <<>>
  /\ value_sum_sq = <<>>
  /\ counts = <<>>
  /\ p_keys = <<>>
  /\ p_chunked = <<>>
  /\ p_whole = <<>>
  /\ p_ran = {}
  /\ db = <<>>
  /\ sql_out = <<>>
  /\ p_exc = "None"

(* process_without_chunking on a file that exists: the frame is loaded,    *)
(* aggregated and returned; the finally block drops the frame              *)
Call_without_chunking ==
  /\ p_fn = "idle"
  /\ p_whole' = groupby_agg(read_csv(p_file))
  /\ p_ran' = p_ran \cup {"process_without_chunking"}
  /\ p_exc' = "None"
  /\ UNCHANGED <<p_file, p_fn, p_pc, p_chunk_size, p_reader, dictVars, p_chunked,
                 db, sql_out, notPandas>>

(* process_with_chunking: the three dicts start empty, the reader is       *)
(* opened on the file                                                      *)
Call_with_chunking(cs) ==
  /\ p_fn = "idle"
  /\ p_fn' = "process_with_chunking"
  /\ p_pc' = "loop"
  /\ p_chunk_size' = cs
  /\ p_reader' = read_csv(p_file)
  /\ value_sum' = <<>>
  /\ value_sum_sq' = <<>>
  /\ counts' = <<>>
  /\ p_keys' = <<>>
  /\ p_exc' = "None"
  /\ UNCHANGED <<p_file, p_chunked, p_whole, p_ran, db, sql_out, notPandas>>

(* the chunk pd.read_csv(filename, chunksize=...) hands out next *)
NextChunk == SubSeq(p_reader, 1, Min(p_chunk_size, Len(p_reader)))

(* an entry that is set to 0 at every chunk *)
Accumulated_Fresh(dict, category) == 0

(* the dict entry an update adds to: 0 for a category not seen before *)
Accumulated(dict, category) ==
  IF category \in DOMAIN dict THEN dict[category] ELSE 0

(* one chunk: for every category of the chunk, the three dicts are updated *)
WithChunkingLoop ==
  /\ p_fn = "process_with_chunking"
  /\ p_pc = "loop"
  /\ p_reader # <<>>
  /\ LET chunk_ == NextChunk
         cats == unique(chunk_)
         new == SelectSeq(cats, LAMBDA c : \A k \in 1..Len(p_keys) : p_keys[k] # c)
         keys == {p_keys[k] : k \in 1..Len(p_keys)} \cup {cats[k] : k \in 1..Len(cats)}
         touched(c) == \E k \in 1..Len(cats) : cats[k] = c
     IN /\ p_keys' = p_keys \o new
        /\ value_sum' = [c \in keys |->
             IF touched(c)
             THEN Accumulated(value_sum, c) + SumSeq(category_data(chunk_, c))
             ELSE value_sum[c]]
        /\ value_sum_sq' = [c \in keys |->
             IF touched(c)
             THEN Accumulated(value_sum_sq, c) + SumSeq(Squares(category_data(chunk_, c)))
             ELSE value_sum_sq[c]]
        /\ counts' = [c \in keys |->
             IF touched(c)
             THEN Accumulated(counts, c) + Len(category_data(chunk_, c))
             ELSE counts[c]]
        /\ p_reader' = SubSeq(p_reader, Len(chunk_) + 1, Len(p_reader))
  /\ UNCHANGED <<p_file, p_fn, p_pc, p_chunk_size, p_chunked, p_whole, p_ran,
                 db, sql_out, p_exc, notPandas>>

(* the final statistics: one row per key of value_sum, in insertion order; *)
(* variance = value_sum_sq / counts - mean ** 2                            *)
WithChunkingFinish ==
  /\ p_fn = "process_with_chunking"
  /\ p_pc = "loop"
  /\ p_reader = <<>>
  /\ p_chunked' = [k \in 1..Len(p_keys) |->
       LET c == p_keys[k]
           n == counts[c]
       IN [category |-> c,
           mean |-> Ratio(value_sum[c], n),
           std |-> Ratio(n * value_sum_sq[c] - value_sum[c] * value_sum[c], n * n),
           count |-> n]]
  /\ p_ran' = p_ran \cup {"process_with_chunking"}
  /\ p_fn' = "idle"
  /\ p_pc' = "idle"
  /\ value_sum' = <<>>
  /\ value_sum_sq' = <<>>
  /\ counts' = <<>>
  /\ p_keys' = <<>>
  /\ UNCHANGED <<p_file, p_chunk_size, p_reader, p_whole, db, sql_out, p_exc,
                 notPandas>>

(* process_sql: the engine is bound to db_filename; whatever the file      *)
(* already holds stays                                                     *)
Call_sql(cs) ==
  /\ p_fn = "idle"
  /\ Len(sql_out) < MaxSqlCalls
  /\ p_fn' = "process_sql"
  /\ p_pc' = "load"
  /\ p_chunk_size' = cs
  /\ p_reader' = read_csv(p_file)
  /\ p_exc' = "None"
  /\ UNCHANGED <<p_file, dictVars, p_chunked, p_whole, p_ran, db, sql_out,
                 notPandas>>

(* chunk.to_sql('large_data', engine, if_exists='append', index=False) *)
to_sql(table, rows) == table \o rows

SqlLoad ==
  /\ p_fn = "process_sql"
  /\ p_pc = "load"
  /\ p_reader # <<>>
  /\ db' = to_sql(db, NextChunk)
  /\ p_reader' = SubSeq(p_reader, Len(NextChunk) + 1, Len(p_reader))
  /\ UNCHANGED <<p_file, p_fn, p_pc, p_chunk_size, dictVars, p_chunked, p_whole,
                 p_ran, sql_out, p_exc, notPandas>>

(* the exceptions of the query over no rows: with no table the query       *)
(* fails, with an empty table SUM is NULL and formatting it fails          *)
SqlEmptyErrors == {"OperationalError", "TypeError"}

(* SELECT SUM(value) FROM large_data, then the print *)
SqlQuery ==
  /\ p_fn = "process_sql"
  /\ p_pc = "load"
  /\ p_reader = <<>>
  /\ IF db = <<>>
     THEN /\ p_exc' \in SqlEmptyErrors
          /\ sql_out' = Append(sql_out, [printed |-> FALSE, total_sum |-> 0])
     ELSE /\ sql_out' = Append(sql_out,
               [printed |-> TRUE,
                total_sum |-> SumSeq([k \in 1..Len(db) |-> db[k].value])])
          /\ p_exc' = "None"
  /\ p_fn' = "idle"
  /\ p_pc' = "idle"
  /\ UNCHANGED <<p_file, p_chunk_size, p_reader, dictVars, p_chunked, p_whole,
                 p_ran, db, notPandas>>

(* ======================================================================= *)
(* The main blocks of csv_examples, df_examples, chunking_pandas_example,  *)
(* np_examples, numpy_example and numpy_example_optimised, as the file     *)
(* operations they perform in order, and the three functions that load     *)
(* inside try and delete the loaded object inside finally.                 *)
(* ======================================================================= *)
Op(kind, name, by) == [op |-> kind, file |-> name, by |-> by]

(* the file operations of a main block, in program order:                  *)
(*   create   the file is written (created or replaced)                    *)
(*   read     a processing function opens the file for reading             *)
(*   stack    da.from_npy_stack opens <name>/info                          *)
(*   guarded  a function that loads inside try/finally is called           *)
(*   remove   os.remove                                                    *)
Program(script) ==
  CASE script = "csv_examples" ->
         << Op("create", "large_data.csv", "generate_large_csv"),
            Op("read", "large_data.csv", "process_csv_non_optimised"),
            Op("read", "large_data.csv", "process_csv_in_chunks"),
            Op("read", "large_data.csv", "process_csv_streaming"),
            Op("read", "large_data.csv", "process_csv_mmap"),
            Op("read", "large_data.csv", "process_csv_distributed"),
            Op("remove", "large_data.csv", "main") >>
    [] script = "df_examples" ->
         << Op("create", "large_data.csv", "create_large_csv"),
            Op("read", "large_data.csv", "process_csv_chunks"),
            Op("read", "large_data.csv", "process_sql"),
            Op("create", "large_data.db", "process_sql"),
            Op("read", "large_data.db", "process_sql"),
            Op("create", "large_data.h5", "process_hdf5"),
            Op("read", "large_data.csv", "process_hdf5"),
            Op("read", "large_data.h5", "process_hdf5"),
            Op("read", "large_data.csv", "process_dask"),
            Op("read", "large_data.csv", "process_parquet"),
            Op("create", "large_data.parquet", "process_parquet"),
            Op("read", "large_data.parquet", "process_parquet"),
            Op("read", "large_data.csv", "process_efficient_types"),
            Op("remove", "large_data.csv", "main"),
            Op("remove", "large_data.db", "main"),
            Op("remove", "large_data.h5", "main"),
            Op("remove", "large_data.parquet", "main") >>
    [] script = "chunking_pandas_example" ->
         << Op("create", "large_dataset.csv", "create_sample_data"),
            Op("guarded", "large_dataset.csv", "process_without_chunking"),
            Op("read", "large_dataset.csv", "process_with_chunking"),
            Op("remove", "large_dataset.csv", "main") >>
    [] script = "np_examples" ->
         << Op("create", "large_array.npy", "create_large_array"),
            Op("read", "large_array.npy", "process_mmap_array"),
            Op("read", "large_array.npy", "process_chunked"),
            Op("stack", "large_array.npy", "process_dask"),
            Op("create", "large_array.h5", "main"),
            Op("read", "large_array.h5", "process_hdf5"),
            Op("remove", "large_array.npy", "main"),
            Op("remove", "large_array.h5", "main") >>
    [] script = "numpy_example" ->
         << Op("create", "large_array.npy", "create_sample_data"),
            Op("guarded", "large_array.npy", "process_without_optimization") >>
    [] script = "numpy_example_optimised" ->
         << Op("guarded", "large_array.npy", "process_with_optimization"),
            Op("remove", "large_array.npy", "main") >>

Scripts == {"csv_examples", "df_examples", "chunking_pandas_example",
            "np_examples", "numpy_example", "numpy_example_optimised"}

(* the data files a script names *)
DataFiles(script) == {Program(script)[k].file : k \in 1..Len(Program(script))}

FileNames == UNION {DataFiles(script) : script \in Scripts}

(* the functions that load inside try and run del inside finally, with the *)
(* file name their main block passes                                       *)
GuardedFunctions ==
  UNION {{[fn |-> Program(script)[k].by, file |-> Program(script)[k].file] :
            k \in {j \in 1..Len(Program(script)) : Program(script)[j].op = "guarded"}} :
         script \in Scripts}

GuardIdle ==
  /\ s_fn = "none"
  /\ s_file = ""
  /\ s_step = "none"
  /\ s_bound = FALSE
  /\ s_pending = "None"
  /\ s_load_exc = "None"

ScriptsIdle ==
  /\ s_script = "none"
  /\ s_pc = 0
  /\ s_created = {}
  /\ s_early = {}
  /\ s_fresh = FALSE
  /\ GuardIdle
  /\ s_exc = "None"

CurrentOp == Program(s_script)[s_pc]

AtOp(kind) ==
  /\ s_script # "none"
  /\ s_fn = "none"
  /\ s_pc <= Len(Program(s_script))
  /\ CurrentOp.op = kind

(* an uncaught exception ends the run *)
Abort(e) ==
  /\ s_script' = "none"
  /\ s_pc' = 0
  /\ s_exc' = e

(* python <script>.py *)
RunScript(script) ==
  /\ s_script = "none"
  /\ s_fn = "none"
  /\ s_script' = script
  /\ s_pc' = 1
  /\ s_created' = {}
  /\ s_early' = {}
  /\ s_fresh' = (DataFiles(script) \cap fs = {})
  /\ s_exc' = "None"
  /\ UNCHANGED <<fs, guardVars, notScripts>>

(* a producer writes the file *)
ScriptCreate ==
  /\ AtOp("create")
  /\ fs' = fs \cup {CurrentOp.file}
  /\ s_created' = s_created \cup {CurrentOp.file}
  /\ s_pc' = s_pc + 1
  /\ UNCHANGED <<s_script, s_early, s_fresh, guardVars, s_exc, notScripts>>

(* the files a run has read without having created them before *)
EarlyAfterRead(early, created, name) ==
  IF name \in created THEN early ELSE early \cup {name}

(* a processing function opens the file for reading *)
ScriptRead ==
  /\ AtOp("read")
  /\ s_early' = EarlyAfterRead(s_early, s_created, CurrentOp.file)
  /\ IF CurrentOp.file \in fs
     THEN /\ s_pc' = s_pc + 1
          /\ UNCHANGED <<s_script, s_exc>>
     ELSE Abort("FileNotFoundError")
  /\ UNCHANGED <<fs, s_created, s_fresh, guardVars, notScripts>>

(* da.from_npy_stack(filename) opens filename/info: filename is a regular  *)
(* file written by np.save, or does not exist                              *)
ScriptReadStack ==
  /\ AtOp("stack")
  /\ s_early' = EarlyAfterRead(s_early, s_created, CurrentOp.file)
  /\ Abort(IF CurrentOp.file \in fs THEN "NotADirectoryError" ELSE "FileNotFoundError")
  /\ UNCHANGED <<fs, s_created, s_fresh, guardVars, notScripts>>

(* os.remove(filename) *)
ScriptRemove ==
  /\ AtOp("remove")
  /\ IF CurrentOp.file \in fs
     THEN /\ fs' = fs \ {CurrentOp.file}
          /\ s_pc' = s_pc + 1
          /\ UNCHANGED <<s_script, s_exc>>
     ELSE /\ Abort("FileNotFoundError")
          /\ UNCHANGED fs
  /\ UNCHANGED <<s_created, s_early, s_fresh, guardVars, notScripts>>

(* the main block has run to its end *)
ScriptEnd ==
  /\ s_script # "none"
  /\ s_fn = "none"
  /\ s_pc > Len(Program(s_script))
  /\ s_script' = "none"
  /\ s_pc' = 0
  /\ UNCHANGED <<fs, s_created, s_early, s_fresh, guardVars, s_exc, notScripts>>

EnterGuarded(f, name) ==
  /\ s_fn' = f
  /\ s_file' = name
  /\ s_step' = "try"
  /\ s_bound' = FALSE
  /\ s_pending' = "None"
  /\ s_load_exc' = "None"
  /\ s_exc' = "None"

(* the main block calls process_without_chunking,                          *)
(* process_without_optimization or process_with_optimization               *)
ScriptCallGuarded ==
  /\ AtOp("guarded")
  /\ EnterGuarded(CurrentOp.by, CurrentOp.file)
  /\ UNCHANGED <<fs, runVars, notScripts>>

(* any other caller calls one of the three functions *)
Call_guarded(g) ==
  /\ s_script = "none"
  /\ s_fn = "none"
  /\ EnterGuarded(g.fn, g.file)
  /\ UNCHANGED <<fs, runVars, notScripts>>

(* try: df = pd.read_csv(filename) / data = np.load(filename); then the    *)
(* computation and return result. The local is bound only if the load      *)
(* succeeded.                                                              *)
GuardedTry ==
  /\ s_fn # "none"
  /\ s_step = "try"
  /\ IF s_file \in fs
     THEN /\ s_bound' = TRUE
          /\ UNCHANGED <<s_pending, s_load_exc>>
     ELSE /\ s_load_exc' = "FileNotFoundError"
          /\ s_pending' = "FileNotFoundError"
          /\ UNCHANGED s_bound
  /\ s_step' = "finally"
  /\ s_early' = IF s_script = "none" THEN s_early
                ELSE EarlyAfterRead(s_early, s_created, s_file)
  /\ UNCHANGED <<fs, s_script, s_pc, s_created, s_fresh, s_fn, s_file, s_exc,
                 notScripts>>

(* what leaves the finally block: del of a bound local succeeds and the    *)
(* exception in flight (if any) goes on; del of an unbound local raises    *)
(* UnboundLocalError, which replaces it                                    *)
AfterFinally(bound, pending) ==
  IF bound THEN pending ELSE "UnboundLocalError"

(* finally: del df / del data; gc.collect() -- then the call is over *)
GuardedFinally ==
  /\ s_fn # "none"
  /\ s_step = "finally"
  /\ LET e == AfterFinally(s_bound, s_pending)
     IN /\ s_exc' = e
        /\ IF s_script = "none" THEN UNCHANGED <<s_script, s_pc>>
           ELSE IF e = "None" THEN s_pc' = s_pc + 1 /\ UNCHANGED s_script
           ELSE s_script' = "none" /\ s_pc' = 0
  /\ s_fn' = "none"
  /\ s_step' = "none"
  /\ s_bound' = FALSE
  /\ s_pending' = "None"
  /\ UNCHANGED <<fs, s_created, s_early, s_fresh, s_file, s_load_exc, notScripts>>

(* ======================================================================= *)
(* lazy_loading_example.DatasetHandler: the property data and get_summary, *)
(* used by several threads. An array is named by the number of the load    *)
(* that produced it; None is 0.                                            *)
(* ======================================================================= *)
MaxThreads == 2
MaxAccess == 4

Threads == 1..MaxThreads

None == 0

(* the accesses to self.data one call makes: one for handler.data, two for *)
(* get_summary (self.data.mean() and self.data.std())                      *)
AccessesOf(op) == IF op = "get_summary" THEN 2 ELSE 1

LazyOps == {"data", "get_summary"}

LazyIdle ==
  /\ l_made = FALSE
  /\ l_data = None
  /\ l_loads = 0
  /\ l_accesses = 0
  /\ l_users = {}
  /\ l_none_checks = 0
  /\ t_pc = [t \in Threads |-> "idle"]
  /\ t_left = [t \in Threads |-> 0]
  /\ t_got = [t \in Threads |-> {}]

(* handler = DatasetHandler(filename): self._data = None *)
Construct ==
  /\ ~l_made
  /\ l_made' = TRUE
  /\ l_data' = None
  /\ UNCHANGED <<l_loads, l_accesses, l_users, l_none_checks, t_pc, t_left, t_got,
                 notLazy>>

(* a thread reads handler.data or calls handler.get_summary() *)
LazyCall(t, op) ==
  /\ l_made
  /\ t_pc[t] = "idle"
  /\ l_accesses + AccessesOf(op) <= MaxAccess
  /\ l_accesses' = l_accesses + AccessesOf(op)
  /\ l_users' = l_users \cup {t}
  /\ t_pc' = [t_pc EXCEPT ![t] = "check"]
  /\ t_left' = [t_left EXCEPT ![t] = AccessesOf(op)]
  /\ UNCHANGED <<l_made, l_data, l_loads, l_none_checks, t_got, notLazy>>

(* a check that sends every access to the load *)
IsNone_Always(d) == TRUE

(* self._data is None *)
IsNone(d) == d = None

(* if self._data is None: *)
LazyCheck(t) ==
  /\ t_pc[t] = "check"
  /\ t_pc' = [t_pc EXCEPT ![t] = IF IsNone(l_data) THEN "load" ELSE "return"]
  /\ l_none_checks' = IF l_data = None THEN l_none_checks + 1 ELSE l_none_checks
  /\ UNCHANGED <<l_made, l_data, l_loads, l_accesses, l_users, t_left, t_got,
                 notLazy>>

(* an assignment that is lost *)
Assigned_Lost(old, new) == old

(* self._data = <the new array> *)
Assigned(old, new) == new

(* print; time.sleep(1); self._data = np.random.rand(int(1e7)): a new      *)
(* array is produced and stored                                            *)
LazyLoad(t) ==
  /\ t_pc[t] = "load"
  /\ l_loads' = l_loads + 1
  /\ l_data' = Assigned(l_data, l_loads + 1)
  /\ t_pc' = [t_pc EXCEPT ![t] = "return"]
  /\ UNCHANGED <<l_made, l_accesses, l_users, l_none_checks, t_left, t_got,
                 notLazy>>

(* return self._data: the thread gets what the attribute refers to now;    *)
(* get_summary then makes its next access                                  *)
LazyReturn(t) ==
  /\ t_pc[t] = "return"
  /\ t_got' = [t_got EXCEPT ![t] = @ \cup {l_data}]
  /\ t_left' = [t_left EXCEPT ![t] = @ - 1]
  /\ t_pc' = [t_pc EXCEPT ![t] = IF t_left[t] > 1 THEN "check" ELSE "idle"]
  /\ UNCHANGED <<l_made, l_data, l_loads, l_accesses, l_users, l_none_checks,
                 notLazy>>

(* ======================================================================= *)
(* utils.run_in_process: func runs in a child process, the caller waits    *)
(* ======================================================================= *)
MaxRuns == 4

(* the value None, as a result *)
ReturnedNone == [kind |-> "return_none", value |-> 0, exc |-> ""]

ProcIdle ==
  /\ r_pc = "idle"
  /\ r_args = <<>>
  /\ r_child_args = <<>>
  /\ r_child = "none"
  /\ r_child_out = NoOutcome
  /\ r_exitcode = 0
  /\ r_ret = NoOutcome
  /\ r_calls = 0

(* run_in_process(func, ...): gc.collect(); the Process object is made *)
RunInProcess(args) ==
  /\ r_pc = "idle"
  /\ r_calls < MaxRuns
  /\ r_args' = args
  /\ r_child_args' = <<>>
  /\ r_calls' = r_calls + 1
  /\ r_pc' = "start"
  /\ r_child' = "none"
  /\ r_child_out' = NoOutcome
  /\ r_exitcode' = 0
  /\ r_ret' = NoOutcome
  /\ UNCHANGED notProc

(* process.start(): the child runs func with args *)
ProcessStart ==
  /\ r_pc = "start"
  /\ r_child' = "running"
  /\ r_child_args' = r_args
  /\ r_pc' = "join"
  /\ UNCHANGED <<r_args, r_child_out, r_exitcode, r_ret, r_calls, notProc>>

(* in the child: func returns a value (exit code 0) or raises (the         *)
(* traceback is printed, exit code 1); then the child terminates           *)
ChildRuns ==
  /\ r_child = "running"
  /\ \E o \in FOutcomes :
       /\ r_child_out' = o
       /\ r_exitcode' = IF o.kind = "return" THEN 0 ELSE 1
  /\ r_child' = "exited"
  /\ UNCHANGED <<r_pc, r_args, r_child_args, r_ret, r_calls, notProc>>

(* process.join() returns when the child has terminated *)
JoinReturns(child) == child = "exited"

ProcessJoin ==
  /\ r_pc = "join"
  /\ JoinReturns(r_child)
  /\ r_pc' = "return"
  /\ UNCHANGED <<r_args, r_child_args, r_child, r_child_out, r_exitcode, r_ret,
                 r_calls, notProc>>

(* a caller that is handed what func did in the child *)
CallerReceives_ChildOutcome(out) == out

(* the function ends without a return statement: the caller gets None *)
CallerReceives(out) == ReturnedNone

ProcessReturn ==
  /\ r_pc = "return"
  /\ r_ret' = CallerReceives(r_child_out)
  /\ r_pc' = "idle"
  /\ UNCHANGED <<r_args, r_child_args, r_child, r_child_out, r_exitcode, r_calls,
                 notProc>>

(* ======================================================================= *)
(* Specification of the CSV functions: generate the file, then any         *)
(* sequence of calls                                                       *)
(* ======================================================================= *)
Init ==
  /\ tracing = FALSE
  /\ file \in Files
  /\ fn = "idle"
  /\ pc = "idle"
  /\ chunk_size = 0
  /\ num_processes = 0
  /\ pos = 1
  /\ total = 0
  /\ chunk = <<>>
  /\ all_data = <<>>
  /\ windows = <<>>
  /\ num_rows = 0
  /\ chunks = <<>>
  /\ results = <<>>
  /\ arrived = <<>>
  /\ failure = NoExc
  /\ stdout = [m \in Methods |-> {}]
  /\ exc = NoExc
  /\ HarnessIdle
  /\ ArrayIdle
  /\ a_shape = <<0, 1>>
  /\ a_chunk_size = 1
  /\ a_data = <<>>
  /\ PandasIdle
  /\ p_file = <<>>
  /\ ScriptsIdle
  /\ fs = {}
  /\ LazyIdle
  /\ ProcIdle

Next ==
  \/ Call_non_optimised
  \/ NonOptLoad
  \/ NonOptRow
  \/ NonOptPrint
  \/ \E cs \in ChunkSizes : Call_in_chunks(cs)
  \/ ChunksAppend
  \/ ChunksCheck
  \/ ChunksTail
  \/ ChunksPrint
  \/ Call_streaming
  \/ StreamRow
  \/ StreamPrint
  \/ Call_mmap
  \/ MmapLine
  \/ MmapPrint
  \/ \E np \in ProcessCounts : Call_distributed(np)
  \/ DistPartition
  \/ \E i \in 1..MaxProcs : DistWorker(i)
  \/ DistJoin
  \/ DistPrint

Spec == Init /\ [][Next]_vars

(* ======================================================================= *)
(* Specification of the decorators: any sequence of calls of a decorated f *)
(* ======================================================================= *)
CsvIdle ==
  /\ file = generate_large_csv(0)
  /\ fn = "idle"
  /\ pc = "idle"
  /\ chunk_size = 0
  /\ num_processes = 0
  /\ pos = 1
  /\ total = 0
  /\ chunk = <<>>
  /\ all_data = <<>>
  /\ windows = <<>>
  /\ num_rows = 0
  /\ chunks = <<>>
  /\ results = <<>>
  /\ arrived = <<>>
  /\ failure = NoExc
  /\ stdout = [m \in Methods |-> {}]
  /\ exc = NoExc

InitHarness ==
  /\ tracing = FALSE
  /\ HarnessIdle
  /\ CsvIdle
  /\ ArrayIdle
  /\ a_shape = <<0, 1>>
  /\ a_chunk_size = 1
  /\ a_data = <<>>
  /\ PandasIdle
  /\ p_file = <<>>
  /\ ScriptsIdle
  /\ fs = {}
  /\ LazyIdle
  /\ ProcIdle

NextHarness ==
  \/ \E chain \in Chains, args \in Arguments : HCall(chain, args)
  \/ WrapperEnter
  \/ InvokeF
  \/ \E chain \in Chains, args \in Arguments : FCalls(chain, args)
  \/ FResumes
  \/ FEnds
  \/ WrapperExit
  \/ HReturn

SpecHarness == InitHarness /\ [][NextHarness]_vars

(* ======================================================================= *)
(* Specification of the index-based chunk loops: an array, its shape and a *)
(* chunk size, then any sequence of calls                                  *)
(* ======================================================================= *)
InitArray ==
  /\ tracing = FALSE
  /\ ArrayIdle
  /\ a_shape \in Shapes
  /\ a_chunk_size \in ArrayChunkSizes
  /\ a_data \in ArraysOfShape(a_shape)
  /\ CsvIdle
  /\ HarnessIdle
  /\ PandasIdle
  /\ p_file = <<>>
  /\ ScriptsIdle
  /\ fs = {}
  /\ LazyIdle
  /\ ProcIdle

NextArray ==
  \/ Call_chunked_array
  \/ ChunkedArrayCreate
  \/ ChunkedArrayLoop
  \/ ChunkedArrayFinish
  \/ Call_chunked
  \/ ChunkedLoop
  \/ ChunkedFinish

SpecArray == InitArray /\ [][NextArray]_vars

(* ======================================================================= *)
(* Specification of the two aggregations of chunking_pandas_example: a CSV *)
(* file written by to_csv, then any sequence of calls                      *)
(* ======================================================================= *)
InitPandas ==
  /\ tracing = FALSE
  /\ PandasIdle
  /\ p_file \in PandasFiles
  /\ CsvIdle
  /\ HarnessIdle
  /\ ArrayIdle
  /\ a_shape = <<0, 1>>
  /\ a_chunk_size = 1
  /\ a_data = <<>>
  /\ ScriptsIdle
  /\ fs = {}
  /\ LazyIdle
  /\ ProcIdle

NextPandas ==
  \/ Call_without_chunking
  \/ \E cs \in PandasChunkSizes : Call_with_chunking(cs)
  \/ WithChunkingLoop
  \/ WithChunkingFinish

SpecPandas == InitPandas /\ [][NextPandas]_vars

(* ======================================================================= *)
(* Specification of process_sql: the same files, a database file that does *)
(* not exist yet, then up to MaxSqlCalls calls                             *)
(* ======================================================================= *)
NextSql ==
  \/ \E cs \in PandasChunkSizes : Call_sql(cs)
  \/ SqlLoad
  \/ SqlQuery

SpecSql == InitPandas /\ [][NextSql]_vars

(* ======================================================================= *)
(* Specification of the scripts: a working directory holding any of the    *)
(* files the scripts name, then any sequence of script runs and of calls   *)
(* of the three try/finally functions                                      *)
(* ======================================================================= *)
InitScripts ==
  /\ tracing = FALSE
  /\ ScriptsIdle
  /\ fs \in SUBSET FileNames
  /\ LazyIdle
  /\ ProcIdle
  /\ CsvIdle
  /\ HarnessIdle
  /\ ArrayIdle
  /\ a_shape = <<0, 1>>
  /\ a_chunk_size = 1
  /\ a_data = <<>>
  /\ PandasIdle
  /\ p_file = <<>>

NextScripts ==
  \/ \E script \in Scripts : RunScript(script)
  \/ ScriptCreate
  \/ ScriptRead
  \/ ScriptReadStack
  \/ ScriptRemove
  \/ ScriptEnd
  \/ ScriptCallGuarded
  \/ \E g \in GuardedFunctions : Call_guarded(g)
  \/ GuardedTry
  \/ GuardedFinally

SpecScripts == InitScripts /\ [][NextScripts]_vars

(* ======================================================================= *)
(* Specification of the lazy handler: no handler yet, then its             *)
(* construction and up to MaxAccess accesses by the threads                *)
(* ======================================================================= *)
InitLazy ==
  /\ tracing = FALSE
  /\ LazyIdle
  /\ ProcIdle
  /\ CsvIdle
  /\ HarnessIdle
  /\ ArrayIdle
  /\ a_shape = <<0, 1>>
  /\ a_chunk_size = 1
  /\ a_data = <<>>
  /\ PandasIdle
  /\ p_file = <<>>
  /\ ScriptsIdle
  /\ fs = {}

NextLazy ==
  \/ Construct
  \/ \E t \in Threads, op \in LazyOps : LazyCall(t, op)
  \/ \E t \in Threads : LazyCheck(t)
  \/ \E t \in Threads : LazyLoad(t)
  \/ \E t \in Threads : LazyReturn(t)

SpecLazy == InitLazy /\ [][NextLazy]_vars

(* ======================================================================= *)
(* Specification of run_in_process: up to MaxRuns calls, func any function *)
(* ======================================================================= *)
NextProc ==
  \/ \E args \in Arguments : RunInProcess(args)
  \/ ProcessStart
  \/ ChildRuns
  \/ ProcessJoin
  \/ ProcessReturn

SpecProc == InitLazy /\ [][NextProc]_vars

(* ======================================================================= *)
(* Properties                                                              *)
(* ======================================================================= *)
SingleProcessMethods == Methods \ {"process_csv_distributed"}

RECURSIVE Concat(_)
Concat(seqs) == IF seqs = <<>> THEN <<>> ELSE Head(seqs) \o Concat(Tail(seqs))

(* the value column of a file, in file order *)
FileValues(f) ==
  LET rd == DictReader(f)
  IN [k \in 1..Len(rd.rows) |-> RowValue(rd.fieldnames, rd.rows[k]).val]

(* C1: on a file written by generate_large_csv no CSV function raises, and *)
(* every total printed by process_csv_non_optimised, process_csv_in_chunks *)
(* (whatever its chunk size), process_csv_streaming and process_csv_mmap   *)
(* is the same number.                                                     *)
C1_SameTotals ==
  file \in GeneratedFiles =>
    /\ exc = NoExc
    /\ \A m1 \in SingleProcessMethods, m2 \in SingleProcessMethods :
         \A t1 \in stdout[m1], t2 \in stdout[m2] : t1 = t2

C1_Witness ==
  /\ file = generate_large_csv(3)
  /\ fn = "process_csv_in_chunks"
  /\ pc = "print"
  /\ chunk_size = 4
  /\ total = 6
  /\ \A m \in SingleProcessMethods : stdout[m] = {6}

(* C2: whatever the file and the number of processes, a total printed by   *)
(* process_csv_distributed equals every total printed by                   *)
(* process_csv_in_chunks on that file.                                     *)
C2_DistributedEqualsChunked ==
  /\ \A t1 \in stdout["process_csv_distributed"],
        t2 \in stdout["process_csv_in_chunks"] : t1 = t2
  /\ (fn = "process_csv_distributed" /\ pc = "print") =>
        \A t2 \in stdout["process_csv_in_chunks"] : total = t2

C2_Witness ==
  /\ file = generate_large_csv(3)
  /\ fn = "process_csv_distributed"
  /\ pc = "print"
  /\ num_processes = 4
  /\ total = 6
  /\ stdout["process_csv_in_chunks"] = {6}

(* C3: the (start, end) pairs of process_csv_distributed are contiguous    *)
(* from 0 to num_rows, every record index lies in exactly one of them as   *)
(* process_chunk tests it, the first num_processes - 1 hold                *)
(* num_rows div num_processes records and the last holds the remainder too *)
C3_Partition ==
  (fn = "process_csv_distributed" /\ pc \in {"pool", "print"}) =>
    LET n == num_processes
        q == num_rows \div n
    IN /\ Len(chunks) = n
       /\ num_rows = Len(DictReader(file).rows)
       /\ chunks[1][1] = 0
       /\ chunks[n][2] = num_rows
       /\ \A i \in 1..(n - 1) : chunks[i][2] = chunks[i + 1][1]
       /\ \A r \in 0..(num_rows - 1) :
            Cardinality({i \in 1..n : InRange(r, chunks[i][1], chunks[i][2])}) = 1
       /\ \A i \in 1..(n - 1) : chunks[i][2] - chunks[i][1] = q
       /\ chunks[n][2] - chunks[n][1] = q + (num_rows % n)

C3_Witness ==
  /\ fn = "process_csv_distributed"
  /\ pc = "pool"
  /\ num_rows = 10
  /\ num_processes = 3
  /\ chunks = <<<<0, 3>>, <<3, 6>>, <<6, 10>>>>

(* C4: in process_csv_in_chunks with chunk_size >= 1 the folded windows,   *)
(* concatenated in fold order and followed by the buffer (while the loop   *)
(* runs), are the values read so far in file order; total is the sum of    *)
(* the windows; every window but the                                       *)
(* last has chunk_size values, the last has 1..chunk_size; at the end the  *)
(* windows are the whole value column.                                     *)
C4_WindowsInOrder ==
  (fn = "process_csv_in_chunks" /\ chunk_size >= 1) =>
    /\ pc # "print" => Concat(windows) \o chunk = SubSeq(FileValues(file), 1, pos - 1)
    /\ total = SumSeq(Concat(windows))
    /\ \A k \in 1..(Len(windows) - 1) : Len(windows[k]) = chunk_size
    /\ windows # <<>> =>
         /\ Len(windows[Len(windows)]) >= 1
         /\ Len(windows[Len(windows)]) <= chunk_size
    /\ pc = "print" => Concat(windows) = FileValues(file)

C4_Witness ==
  /\ file = ScenarioFile
  /\ fn = "process_csv_in_chunks"
  /\ pc = "print"
  /\ chunk_size = 2
  /\ windows = <<<<1, 2>>, <<3, 4>>, <<5>>>>
  /\ total = 15

(* C5: a call of process_csv_in_chunks with chunk_size <= 0 reads no       *)
(* record, folds nothing and never gets to print a total.                  *)
C5_NonPositiveChunkSizeRejected ==
  (fn = "process_csv_in_chunks" /\ chunk_size <= 0) =>
    /\ pos = 1
    /\ chunk = <<>>
    /\ windows = <<>>
    /\ pc # "print"

(* C6: on an array with zero rows a chunk loop with a positive chunk size  *)
(* ends without an exception and with a mean value built from total 0.     *)
C6_ZeroLengthYieldsIdentity ==
  (a_shape[1] = 0 /\ a_chunk_size >= 1 /\ a_out.kind # "none") =>
    /\ a_out.kind = "value"
    /\ a_out.num = 0

(* C7: through log_memory_usage, log_execution_time or both, f is invoked  *)
(* at most once during the call and exactly once by its end, with the      *)
(* caller's arguments, and the caller receives exactly what f returned (or *)
(* raised).                                                                *)
C7_CalledOnceResultUnchanged ==
  /\ Len(h_invoked) <= 1
  /\ (h_pc = "idle" /\ h_outcome.kind # "none") =>
       /\ Len(h_invoked) = 1
       /\ h_invoked[1] = h_args
       /\ h_outcome = h_fout

C7_Witness ==
  /\ h_pc = "idle"
  /\ h_chain = <<"log_memory_usage", "log_execution_time">>
  /\ h_args = <<1>>
  /\ h_outcome = Returned(1)

(* C8: when f raises under log_memory_usage, the caller receives f's       *)
(* exception and tracemalloc is no longer tracing.                         *)
C8_TrackingStoppedAfterRaise ==
  (h_pc = "idle" /\ h_outcome.kind = "raise"
     /\ \E k \in 1..Len(h_chain) : h_chain[k] = "log_memory_usage") =>
    /\ h_outcome = h_fout
    /\ ~tracing

(* C9: when process_csv_distributed ends with an exception, that exception *)
(* is a worker failure carrying the (start, end) pair of a task that       *)
(* failed, and nothing was printed.                                        *)
C9_WorkerFailureNamesRange ==
  [][(fn = "process_csv_distributed" /\ pc = "pool" /\ fn' = "idle"
        /\ exc' # NoExc) =>
       /\ stdout' = stdout
       /\ exc'.type = "WorkerFailure"
       /\ \E i \in 1..num_processes :
            /\ ~process_chunk(file, chunks[i][1], chunks[i][2]).ok
            /\ exc'.args = chunks[i]]_vars

(* C10: all totals process_csv_distributed has printed for the file, over  *)
(* all its calls and all orders in which the workers completed, are one    *)
(* and the same number.                                                    *)
C10_OneTotalWhateverOrder ==
  /\ Cardinality(stdout["process_csv_distributed"]) <= 1
  /\ (fn = "process_csv_distributed" /\ pc = "print") =>
        stdout["process_csv_distributed"] \subseteq {total}

C10_Witness ==
  /\ fn = "process_csv_distributed"
  /\ pc = "print"
  /\ num_processes = 3
  /\ arrived = <<3, 1, 2>>
  /\ total = 6
  /\ stdout["process_csv_distributed"] = {6}

(* C11: process_csv_distributed has a total to print only when every task *)
(* handed to the pool has finished, each exactly once; while a worker is   *)
(* still to finish no total has been computed.                             *)
C11_TotalAfterAllWorkers ==
  /\ (fn = "process_csv_distributed" /\ pc = "print") =>
       /\ Finished = 1..num_processes
       /\ Len(arrived) = num_processes
  /\ (fn = "process_csv_distributed" /\ pc = "pool") => total = 0

C11_Witness ==
  /\ file = generate_large_csv(5)
  /\ fn = "process_csv_distributed"
  /\ pc = "print"
  /\ num_processes = 3
  /\ Len(arrived) = 3
  /\ total = 20

(* C13: no step of any CSV processing function, worker steps included,     *)
(* changes the content of the file.                                        *)
C13_FileUnchanged == [][file' = file]_vars

C13_Witness ==
  /\ file = generate_large_csv(3)
  /\ fn = "idle"
  /\ \A m \in Methods : stdout[m] = {6}

(* C18: process_csv_mmap never ends with an exception: whatever the lines  *)
(* of the file are, a line whose second field is missing or not a number   *)
(* is passed over.                                                         *)
C18_MmapSkipsInvalidLines ==
  [][(fn = "process_csv_mmap" /\ fn' = "idle") =>
       /\ exc' = NoExc
       /\ stdout'["process_csv_mmap"] # {}]_vars

(* some frame of log_memory_usage of the running call is on the stack *)
MemFrameActive ==
  /\ h_pc \in {"enter", "in_f", "exit"}
  /\ \E k \in 1..h_depth : h_chain[k] = "log_memory_usage"

(* C19: as long as every decorated call so far returned normally and none  *)
(* was made from inside another, tracemalloc is tracing exactly while a    *)
(* log_memory_usage frame is on the stack (so it is on during the call and *)
(* off after it), and every start() has its own stop() before the next     *)
(* start(): the starts outnumber the stops by one while tracing and by     *)
(* nothing otherwise.                                                      *)
C19_StartsAndStopsPaired ==
  h_clean =>
    /\ tracing = MemFrameActive
    /\ h_starts - h_stops = (IF tracing THEN 1 ELSE 0)

C19_Witness ==
  /\ h_clean
  /\ h_pc = "in_f"
  /\ h_chain = <<"log_memory_usage", "log_execution_time">>
  /\ h_calls = 3
  /\ h_starts = 2
  /\ h_stops = 1
  /\ tracing

(* the last decorated call made by the running f went through              *)
(* log_memory_usage and returned normally                                  *)
NestedStopped ==
  /\ h_nested.kind = "return"
  /\ \E k \in 1..Len(h_nested.chain) : h_nested.chain[k] = "log_memory_usage"

(* C20: once a log_memory_usage-wrapped call made from inside f has        *)
(* returned, tracemalloc is not tracing for the rest of the outer call:    *)
(* not in the rest of f, and not when the outer wrappers run their         *)
(* statements after the call (where log_memory_usage reads the peak).      *)
C20_InnerStopEndsSession ==
  (h_pc \in {"in_f", "exit"} /\ NestedStopped) => ~tracing

C20_Witness ==
  /\ h_pc = "exit"
  /\ h_stack = <<>>
  /\ h_chain = <<"log_memory_usage">>
  /\ h_depth = 1
  /\ h_result.kind = "return"
  /\ NestedStopped
  /\ h_starts = 2
  /\ ~tracing

(* two statistics are the same number, or both are NaN *)
SameStat(a, b) ==
  /\ a.nan = b.nan
  /\ ~a.nan => a.num * b.den = b.num * a.den

BothFramesReturned ==
  {"process_with_chunking", "process_without_chunking"} \subseteq p_ran

(* C14: every process_sql call on the same CSV file and the same database  *)
(* file ends the same way and reports the same total.                      *)
C14_SqlSameTotalTwice ==
  \A i \in 1..Len(sql_out), j \in 1..Len(sql_out) : sql_out[i] = sql_out[j]

(* C16: the std process_with_chunking returns for a category equals the    *)
(* std process_without_chunking returns for it, whatever the chunk size.   *)
C16_SameStd ==
  BothFramesReturned =>
    \A i \in 1..Len(p_chunked), j \in 1..Len(p_whole) :
      p_chunked[i].category = p_whole[j].category =>
        SameStat(p_chunked[i].std, p_whole[j].std)

C12_CreatedBeforeRead ==
  s_fresh => s_early = {}

(* C15: when the load inside process_without_chunking,                     *)
(* process_without_optimization or process_with_optimization has failed,   *)
(* the exception the caller receives is the one the load raised.           *)
C15_LoadFailureReachesCaller ==
  (s_fn = "none" /\ s_load_exc # "None") => s_exc = s_load_exc

(* a step of process_csv_in_chunks, called with chunk_size >= 1, that adds *)
(* a window to the total                                                   *)
FoldStep ==
  /\ fn = "process_csv_in_chunks"
  /\ chunk_size >= 1
  /\ Len(windows') = Len(windows) + 1

(* C21 as stated: in process_csv_in_chunks with chunk_size >= 1 the buffer *)
(* never holds more than chunk_size values, and it is empty right after    *)
(* every fold into the total.                                              *)
C21_BufferEmptyAfterEveryFold ==
  [][/\ (fn' = "process_csv_in_chunks" /\ chunk_size' >= 1) =>
          Len(chunk') <= chunk_size'
     /\ FoldStep => chunk' = <<>>]_vars

(* C21 amended: in process_csv_in_chunks with chunk_size >= 1 the buffer   *)
(* never holds more than chunk_size values; it is empty right after every  *)
(* fold of a full buffer inside the loop, while the fold of the remainder  *)
(* after the loop leaves the remainder (fewer than chunk_size values) in   *)
(* the buffer until the function returns.                                  *)
C21_BufferBounded ==
  [][/\ (fn' = "process_csv_in_chunks" /\ chunk_size' >= 1) =>
          Len(chunk') <= chunk_size'
     /\ (FoldStep /\ pc = "check") => chunk' = <<>>
     /\ (FoldStep /\ pc = "loop") =>
          /\ chunk' = chunk
          /\ chunk' # <<>>
          /\ Len(chunk') < chunk_size'
          /\ pc' = "print"]_vars

C21_Witness ==
  /\ file = ScenarioFile
  /\ fn = "process_csv_in_chunks"
  /\ pc = "print"
  /\ chunk_size = 2
  /\ windows = <<<<1, 2>>, <<3, 4>>, <<5>>>>
  /\ chunk = <<5>>

(* the number of rows in a sequence of row ranges *)
RECURSIVE RowsIn(_)
RowsIn(ranges) ==
  IF ranges = <<>> THEN 0
  ELSE (Head(ranges)[2] - Head(ranges)[1]) + RowsIn(Tail(ranges))

(* C22: in process_chunked_array and process_chunked with a chunk size     *)
(* >= 1 the row ranges processed so far start at row 0, each is non-empty  *)
(* and starts where the one before it ended, none goes past the last row,  *)
(* all but the last hold chunk_size rows; on loop exit they end at the     *)
(* last row, so they hold every row once, and the count of                 *)
(* process_chunked_array is rows times columns.                            *)
C22_RangesCoverRowsOnce ==
  (a_fn \in {"process_chunked_array", "process_chunked"} /\ a_chunk_size >= 1
     /\ a_pc \in {"loop", "finish"}) =>
    /\ \A k \in 1..Len(a_ranges) :
         /\ a_ranges[k][1] = (IF k = 1 THEN 0 ELSE a_ranges[k - 1][2])
         /\ a_ranges[k][1] < a_ranges[k][2]
         /\ a_ranges[k][2] <= a_shape[1]
         /\ k < Len(a_ranges) => a_ranges[k][2] - a_ranges[k][1] = a_chunk_size
    /\ a_fn = "process_chunked_array" => a_count = RowsIn(a_ranges) * a_shape[2]
    /\ a_pc = "finish" =>
         /\ RowsIn(a_ranges) = a_shape[1]
         /\ a_ranges # <<>> => a_ranges[Len(a_ranges)][2] = a_shape[1]
         /\ a_fn = "process_chunked_array" => a_count = a_shape[1] * a_shape[2]

C22_Witness ==
  /\ a_fn = "process_chunked_array"
  /\ a_pc = "finish"
  /\ a_shape = <<3, 2>>
  /\ a_chunk_size = 2
  /\ a_ranges = <<<<0, 2>>, <<2, 3>>>>
  /\ a_count = 6

(* the arrays the accesses have returned so far *)
ArraysObtained == UNION {t_got[t] : t \in Threads}

(* C23: while a single thread uses the handler, nothing is loaded at       *)
(* construction or before the first access gets to its load, the load runs *)
(* once, at the first access, and every access returns that one array.     *)
C23_LoadedOnceOnFirstAccess ==
  Cardinality(l_users) <= 1 =>
    /\ l_loads <= 1
    /\ l_accesses = 0 => (l_loads = 0 /\ l_data = None)
    /\ (l_data = None) = (l_loads = 0)
    /\ ArraysObtained \subseteq {1}
    /\ ArraysObtained # {} => (l_loads = 1 /\ l_data = 1)

C23_Witness ==
  /\ l_users = {1}
  /\ l_accesses = 4
  /\ t_pc[1] = "idle"
  /\ l_loads = 1
  /\ t_got[1] = {1}

(* C24: the load runs once for every check that found self._data None, and *)
(* nothing but the check stands between a thread and the load: every       *)
(* thread whose check comes before the first assignment loads again, so    *)
(* the number of loads can reach the number of threads, and the arrays     *)
(* returned are arrays that were loaded; two different arrays are returned *)
(* only when the load ran more than once.                                  *)
C24_EveryNoneCheckLoads ==
  /\ l_loads <= l_none_checks
  /\ l_none_checks <= Cardinality(l_users)
  /\ l_none_checks - l_loads = Cardinality({t \in Threads : t_pc[t] = "load"})
  /\ ArraysObtained \subseteq 1..l_loads
  /\ Cardinality(ArraysObtained) >= 2 => l_loads >= 2

C24_Witness ==
  /\ l_loads = 2
  /\ t_pc = [t \in Threads |-> "idle"]
  /\ t_got[1] = {1}
  /\ t_got[2] = {2}

(* C25: run_in_process gets past join, and back to its caller, only when  *)
(* the child it started has terminated; what the caller receives is None,  *)
(* whether func returned a value or raised in the child.                   *)
C25_ReturnsNoneAfterChildExit ==
  /\ r_pc = "return" => r_child = "exited"
  /\ (r_pc = "idle" /\ r_calls > 0) =>
       /\ r_child = "exited"
       /\ r_child_args = r_args
       /\ r_child_out.kind \in {"return", "raise"}
       /\ r_ret = ReturnedNone

C25_Witness ==
  /\ r_pc = "idle"
  /\ r_calls = 2
  /\ r_child = "exited"
  /\ r_child_out = Raised("ValueError")
  /\ r_exitcode = 1
  /\ r_ret = ReturnedNone

====
